---- MODULE Spec2Model ----
(***************************************************************************)
(* State-machine model of scrapers/google_shopping.py                      *)
(* (scrape_google_shopping): one browser session driven through            *)
(* bootstrap, home page, search, Shopping tab, first product, screenshot,  *)
(* CAPTCHA check, vendor-list extraction and teardown (Spec); and of the   *)
(* single-site scrapers of jumbo.py, lider.py and santaisabel.py: search   *)
(* page, scan of the anchors, product page, name, price, SKU (SpecSite).   *)
(*                                                                         *)
(* Text that the code inspects (markup, inner texts, attributes, hrefs) is *)
(* a sequence of one-character strings, so that strip(), lower(), "in",    *)
(* re.search and unquote are computed character by character.  A literal   *)
(* of the program that is only stored and returned is a one-symbol text,   *)
(* Lit("...").  A Python value that may be None is None or Some(v).        *)
(***************************************************************************)
EXTENDS Integers, Sequences, FiniteSets, TLC

\* ------------------------------------------------------------------ bounds
\* lists of at most ShortLen panel items take every catalogue entry at
\* every position; longer lists run from PanelCap to MaxItems items
ShortLen == 1
MaxItems == 21
\* at most this many panel entries raise during their extraction in one run
MaxItemFaults == 1
\* the results page of a single-site scraper has at most this many product anchors
MaxLinks == 2

\* --------------------------------------------------------- Python values
None == <<>>
Some(v) == <<v>>
Lit(s) == <<s>>

Min(a, b) == IF a < b THEN a ELSE b

\* ------------------------------------------------------- character data
WHITESPACE == {" ", "\t", "\n"}
DIGITS == {"0", "1", "2", "3", "4", "5", "6", "7", "8", "9"}
UPPERCASE == <<"A","B","C","D","E","F","G","H","I","J","K","L","M","N","O","P","Q","R","S","T","U","V","W","X","Y","Z">>
LOWERCASE == <<"a","b","c","d","e","f","g","h","i","j","k","l","m","n","o","p","q","r","s","t","u","v","w","x","y","z">>

\* str.lower(), one character
LowerChar(c) ==
    IF \E i \in 1..26 : UPPERCASE[i] = c
    THEN LOWERCASE[CHOOSE i \in 1..26 : UPPERCASE[i] = c]
    ELSE c

\* str.lower()
Lower(s) == [i \in 1..Len(s) |-> LowerChar(s[i])]

\* sub == s[i : i + len(sub)], i counted from 1
MatchAt(sub, s, i) ==
    /\ i + Len(sub) - 1 <= Len(s)
    /\ \A k \in 1..Len(sub) : s[i + k - 1] = sub[k]

\* sub in s
Contains(sub, s) == \E i \in 1..(Len(s) + 1) : MatchAt(sub, s, i)

\* str.strip(): leading and trailing whitespace removed
Strip(s) ==
    LET solid == {i \in 1..Len(s) : s[i] \notin WHITESPACE}
    IN  IF solid = {} THEN <<>>
        ELSE LET lo == CHOOSE i \in solid : \A j \in solid : i <= j
                 hi == CHOOSE i \in solid : \A j \in solid : j <= i
             IN  SubSeq(s, lo, hi)

\* the longest run s[i..j] of characters of class cls that starts at i; j = i - 1 when s[i] is not in cls
RunEnd(s, i, cls) ==
    LET stops == {j \in i..(Len(s) + 1) : j = Len(s) + 1 \/ s[j] \notin cls}
    IN  (CHOOSE j \in stops : \A k \in stops : j <= k) - 1

\* re.search(r'CLP\s*([\d\.,]+)', s): group(1) of the leftmost match, None when there is no match
PRICE_CLASS == DIGITS \cup {".", ","}
CLP == <<"C","L","P">>
PriceMatchAt(s, i) ==
    /\ MatchAt(CLP, s, i)
    /\ LET d == RunEnd(s, i + 3, WHITESPACE) + 1
       IN  d <= Len(s) /\ s[d] \in PRICE_CLASS
PriceSearch(s) ==
    LET starts == {i \in 1..Len(s) : PriceMatchAt(s, i)}
    IN  IF starts = {} THEN None
        ELSE LET i == CHOOSE a \in starts : \A b \in starts : a <= b
                 d == RunEnd(s, i + 3, WHITESPACE) + 1
             IN  Some(SubSeq(s, d, RunEnd(s, d, PRICE_CLASS)))

\* re.search(r'url=([^&]+)', href): group(1) of the leftmost match, None when there is no match
URL_EQ == <<"u","r","l","=">>
UrlParamSearch(href) ==
    LET starts == {i \in 1..Len(href) :
                      /\ MatchAt(URL_EQ, href, i)
                      /\ i + 4 <= Len(href)
                      /\ href[i + 4] # "&"}
    IN  IF starts = {} THEN None
        ELSE LET i == CHOOSE a \in starts : \A b \in starts : a <= b
                 stops == {j \in (i + 4)..(Len(href) + 1) : j = Len(href) + 1 \/ href[j] = "&"}
                 e == CHOOSE j \in stops : \A k \in stops : j <= k
             IN  Some(SubSeq(href, i + 4, e - 1))

\* urllib.parse.unquote on the escapes of HEX_CODES; any other "%" is kept as it is
HEX_CODES == { <<"2","0">>, <<"2","5">>, <<"2","6">>, <<"2","F">>, <<"2","f">>,
               <<"3","A">>, <<"3","a">>, <<"3","D">>, <<"3","d">>, <<"3","F">>, <<"3","f">> }
HexChar(h) ==
    CASE h = <<"2","0">> -> " "
      [] h = <<"2","5">> -> "%"
      [] h = <<"2","6">> -> "&"
      [] h \in {<<"2","F">>, <<"2","f">>} -> "/"
      [] h \in {<<"3","A">>, <<"3","a">>} -> ":"
      [] h \in {<<"3","D">>, <<"3","d">>} -> "="
      [] OTHER -> "?"
RECURSIVE UnquoteFrom(_, _)
UnquoteFrom(s, i) ==
    IF i > Len(s) THEN <<>>
    ELSE IF s[i] = "%" /\ i + 2 <= Len(s) /\ SubSeq(s, i + 1, i + 2) \in HEX_CODES
         THEN <<HexChar(SubSeq(s, i + 1, i + 2))>> \o UnquoteFrom(s, i + 3)
         ELSE <<s[i]>> \o UnquoteFrom(s, i + 1)
unquote(s) == UnquoteFrom(s, 1)

\* ---------------------------------------------------- program constants
\* product_items[:20]
PanelCap == 20
\* len(shopping_selectors)
NumSelectors == 5

\* page.goto targets and the addresses page.url can show
URL_BLANK == Lit("about:blank")
URL_HOME == Lit("https://www.google.cl")
URL_SEARCH == Lit("https://www.google.cl/search?q=...")
URL_SHOPPING == Lit("https://www.google.cl/search?q=...&tbm=shop")
URL_SORRY == Lit("https://www.google.com/sorry/index")

\* the two markers of line 234, already lower-case
RECAPTCHA == <<"r","e","c","a","p","t","c","h","a">>
CAPTCHA == <<"c","a","p","t","c","h","a">>

\* 'recaptcha' in content.lower() or 'captcha' in content.lower()
ChallengeUnfolded(content) == Contains(RECAPTCHA, content) \/ Contains(CAPTCHA, content)
ChallengeDetected(content) == Contains(RECAPTCHA, Lower(content)) \/ Contains(CAPTCHA, Lower(content))

\* ------------------------------------------------------- result records
CaptchaSentinel(url) ==
    [retailer |-> Lit("Google Shopping"),
     nombre |-> Lit("CAPTCHA detectado - Google bloqueó la solicitud"),
     precio |-> Lit("N/A"), sku |-> Lit("N/A"), url |-> url,
     encontrado |-> FALSE, error |-> Lit("CAPTCHA")]

NoResultsSentinel(url) ==
    [retailer |-> Lit("Google Shopping"),
     nombre |-> Lit("No se encontraron resultados"),
     precio |-> Lit("N/A"), sku |-> Lit("N/A"), url |-> url,
     encontrado |-> FALSE]

ErrorSentinel(msg) ==
    [retailer |-> Lit("Google Shopping"),
     nombre |-> Lit("Error"), precio |-> Lit("Error"), sku |-> Lit("Error"),
     url |-> <<>>, error |-> msg, encontrado |-> FALSE]

Offer(retailer_name, product_name, product_price, product_url) ==
    [retailer |-> retailer_name, nombre |-> product_name, precio |-> product_price,
     sku |-> Lit("N/A"),
     url |-> IF product_url = None THEN <<>> ELSE product_url[1],
     encontrado |-> TRUE]

\* str(e) of the exceptions the code raises itself, and of one raised by the browser or the file system
MSG_NO_BUTTON == Lit("No se encontró el botón Shopping en ningún selector")
MSG_ENGINE == Lit("Timeout exceeded")
MSG_OSERROR == Lit("[Errno 13] Permission denied")
\* f"No se puede acceder a Shopping: {e}"
ShoppingError(msg) == Lit("No se puede acceder a Shopping: ") \o msg

\* ------------------------------------------------- panel items (inputs)
\* what the element queries of lines 276-309 find inside one listitem:
\*   retailer  inner text of div.hP4iBf.gUf0b.uWvFpd          (None: no such element)
\*   aria      aria-label of div.GBgquf.JIep9e span[aria-label]
\*   price     inner text of div.GBgquf.JIep9e
\*   name      inner text of div.Rp8BL.CpcIhb.y1FcZd.rYkzq
\*   href      href of a.P9159d[href]
R_LIDER == <<"L","i","d","e","r">>
R_JUMBO_PAD == <<" ","J","u","m","b","o","\n">>
R_BLANK == <<" ","\t">>
ARIA_OK == <<"P","r","e","c","i","o"," ","a","c","t","u","a","l",":"," ","C","L","P"," ","1",",","1","5","0">>
ARIA_BAD == <<"G","r","a","t","i","s">>
TXT_OK == <<"C","L","P","9","9","0">>
TXT_BAD == <<"$"," ","9","9","0">>
TXT_TWO == <<"C","L","P"," ","x"," ","C","L","P","\n","2",".","4","9","0"," ","c","/","u">>
N_LECHE == <<"L","e","c","h","e"," ","1","L">>
N_PAD == <<"\t","P","a","n"," ">>
N_BLANK == <<"\n">>
H_WRAP == <<"/","u","r","l","?","u","r","l","=","h","t","t","p","s","%","3","A","%","2","F","%","2","F","a",".","c","l","%","2","F","p","&","s","a","=","U">>
H_PLAIN == <<"h","t","t","p","s",":","/","/","b",".","c","l","/","p">>
H_EMPTYVAL == <<"/","r","?","u","r","l","=","&","x","=","1">>
H_LATER == <<"/","r","?","u","r","l","=","&","n","e","x","t","_","u","r","l","=","b",".","c","l","%","2","F","p">>

Item(retailer, aria, price, name, href) ==
    [retailer |-> retailer, aria |-> aria, price |-> price, name |-> name, href |-> href]

Catalogue == <<
    Item(Some(R_LIDER),     Some(ARIA_OK),  Some(TXT_OK),  Some(N_LECHE), Some(H_WRAP)),
    Item(Some(R_JUMBO_PAD), None,           Some(TXT_TWO), Some(N_PAD),   Some(H_PLAIN)),
    Item(None,              Some(ARIA_OK),  Some(TXT_OK),  Some(N_LECHE), Some(H_PLAIN)),
    Item(Some(R_BLANK),     Some(ARIA_OK),  Some(TXT_OK),  Some(N_LECHE), Some(H_WRAP)),
    Item(Some(R_LIDER),     Some(ARIA_BAD), Some(TXT_BAD), Some(N_LECHE), Some(H_PLAIN)),
    Item(Some(R_LIDER),     Some(ARIA_OK),  Some(TXT_OK),  Some(N_BLANK), None),
    Item(Some(R_LIDER),     Some(ARIA_BAD), Some(TXT_OK),  Some(N_PAD),   None),
    Item(Some(R_JUMBO_PAD), Some(<<>>),     Some(TXT_OK),  Some(N_LECHE), Some(H_EMPTYVAL)),
    Item(Some(R_LIDER),     None,           Some(TXT_OK),  Some(N_PAD),   Some(H_LATER)),
    Item(Some(R_LIDER),     Some(ARIA_OK),  None,          Some(N_LECHE), Some(<<>>)) >>

\* the lists page.query_selector_all can return: every short list over the
\* catalogue, and the catalogue repeated in order for the lengths around the cap
ShortLists == UNION {[1..n -> 1..Len(Catalogue)] : n \in 0..ShortLen}
LongLists == {[i \in 1..n |-> ((i - 1) % Len(Catalogue)) + 1] : n \in PanelCap..MaxItems}
PanelLists == {[i \in 1..Len(l) |-> Catalogue[l[i]]] : l \in ShortLists \cup LongLists}

\* the markup page.content() can return
MK_PLAIN == <<"<","p",">","o","k","<","/","p",">">>
MK_NEAR == <<"c","a","p","c","h","a">>
MK_LOWER == <<"<","c","a","p","t","c","h","a",">">>
MK_UPPER == <<"C","A","P","T","C","H","A">>
MK_MIXED == <<"g","-","r","e","C","a","p","t","c","h","a">>
Markups == {MK_PLAIN, MK_NEAR, MK_LOWER, MK_UPPER, MK_MIXED}

\* ------------------------------------------ extraction of one panel item
\* lines 276-279
RetailerName(item) ==
    IF item.retailer # None THEN Some(Strip(item.retailer[1])) ELSE None

\* lines 282-298: the aria-label first, the visible text when that gave no price
PriceOf(text) ==
    IF PriceSearch(text) # None THEN Some(<<"$">> \o PriceSearch(text)[1]) ELSE None
ProductPrice(item) ==
    LET fromAria == IF item.aria # None /\ item.aria[1] # <<>> THEN PriceOf(item.aria[1]) ELSE None
    IN  IF fromAria # None THEN fromAria
        ELSE IF item.price # None THEN PriceOf(item.price[1]) ELSE None

\* lines 301-304
ProductName(item) ==
    IF item.name # None THEN Some(Strip(item.name[1])) ELSE None

\* lines 307-318
ProductUrlVerbatim(item) ==
    IF item.href # None /\ item.href[1] # <<>> THEN Some(item.href[1]) ELSE None
ProductUrl(item) ==
    IF item.href # None /\ item.href[1] # <<>>
    THEN IF Contains(URL_EQ, item.href[1])
         THEN IF UrlParamSearch(item.href[1]) # None
              THEN Some(unquote(UrlParamSearch(item.href[1])[1]))
              ELSE None
         ELSE Some(item.href[1])
    ELSE None

\* Python truth of an optional string: None and "" are false
TruthyNotNone(v) == v # None
Truthy(v) == v # None /\ v[1] # <<>>

\* line 320: if product_name and product_price and retailer_name
Accepted(item) ==
    Truthy(ProductName(item)) /\ Truthy(ProductPrice(item)) /\ Truthy(RetailerName(item))

\* lines 320-328: results after the entry was extracted without an exception
ExtractItem(results, item) ==
    IF Accepted(item)
    THEN Append(results, Offer(RetailerName(item)[1], ProductName(item)[1],
                               ProductPrice(item)[1], ProductUrl(item)))
    ELSE results

\* line 268: product_items[:20]
CappedAll(product_items) == product_items
Capped(product_items) == SubSeq(product_items, 1, Min(Len(product_items), PanelCap))

\* lines 337-348: what the function returns after the loop and the teardown
NormalResultAsIs(results, url) == results
NormalResult(results, url) ==
    IF Len(results) = 0 THEN <<NoResultsSentinel(url)>> ELSE results

\* line 234 decides where the run goes after the check
AfterCheckAlways(content) == "query"
AfterCheck(content) == IF ChallengeDetected(content) THEN "captcha_dump" ELSE "query"

\* lines 138-146: the selectors are tried in list order, a selector that does
\* not resolve times out and the next one is tried; 0 stands for None
FirstResolved(present) ==
    IF present = {} THEN 0 ELSE CHOOSE i \in present : \A j \in present : i <= j

\* line 148: if not shopping_button
NoButton(shopping_button) == shopping_button = 0

\* the pages with a bot challenge among Markups, and the address such a page shows
ChallengePages == {MK_LOWER, MK_UPPER, MK_MIXED}
UrlOf(m, url) == IF m \in ChallengePages THEN URL_SORRY ELSE url

\* ---------------------------------------------------- single-site scrapers
\* scrape_jumbo_product, scrape_lider_product and scrape_santaisabel_product:
\* search page, scan of the anchors, product page, name, price, SKU, teardown
Scrapers == {"jumbo", "lider", "santaisabel"}

RetailerLabel(s) ==
    CASE s = "jumbo" -> Lit("Jumbo")
      [] s = "lider" -> Lit("Líder")
      [] OTHER -> Lit("Santa Isabel")
\* search_url, with the search term in it
SearchUrl(s) ==
    CASE s = "jumbo" -> Lit("https://www.jumbo.cl/busqueda?ft=...")
      [] s = "lider" -> Lit("https://super.lider.cl/search?q=...")
      [] OTHER -> Lit("https://www.santaisabel.cl/busqueda?ft=...")
\* the prefix put before an href that does not start with http
BaseUrl(s) ==
    CASE s = "jumbo" -> <<"h","t","t","p","s",":","/","/","w","w","w",".","j","u","m","b","o",".","c","l">>
      [] s = "lider" -> <<"h","t","t","p","s",":","/","/","s","u","p","e","r",".","l","i","d","e","r",".","c","l">>
      [] OTHER -> <<"h","t","t","p","s",":","/","/","w","w","w",".","s","a","n","t","a","i","s","a","b","e","l",".","c","l">>
\* the substring the link test looks for (lider.py has no such test)
DomainOf(s) == IF s = "jumbo" THEN <<"j","u","m","b","o",".","c","l">> ELSE <<"s","a","n","t","a","i","s","a","b","e","l",".","c","l">>
\* the substring of the selector a[href*="..."]
SLASH_P == <<"/","p">>
SLASH_IP == <<"/","i","p","/">>
LinkMarker(s) == IF s = "lider" THEN SLASH_IP ELSE SLASH_P
HTTP == <<"h","t","t","p">>
PUNTOS == <<"p","u","n","t","o","s","c","e","n","c","o","s","u","d">>
UTM == <<"u","t","m","_">>

\* str.startswith
StartsWith(prefix, s) == MatchAt(prefix, s, 1)

\* the first index of a set of indices, 0 when there is none
FirstIndex(S) == IF S = {} THEN 0 ELSE CHOOSE i \in S : \A j \in S : i <= j
\* the last index of a set of indices, 0 when there is none
LastIndex(S) == IF S = {} THEN 0 ELSE CHOOSE i \in S : \A j \in S : j <= i

\* jumbo.py 52, santaisabel.py 40: and binds tighter than or
LinkFilter(url, s) ==
    \/ (url # <<>> /\ Contains(SLASH_P, url) /\ Contains(DomainOf(s), url))
    \/ (StartsWith(<<"/">>, url) /\ Contains(SLASH_P, url))
\* jumbo.py 54, santaisabel.py 41
NotAffiliate(url) == ~Contains(PUNTOS, url) /\ ~Contains(UTM, url)
\* jumbo.py 55-58, lider.py 43-46, santaisabel.py 42-45
Absolute(url, s) == IF ~StartsWith(HTTP, url) THEN BaseUrl(s) \o url ELSE url

\* the position in all_links of the anchor whose href becomes product_url, 0
\* when product_url stays None: jumbo.py and santaisabel.py take the first
\* anchor that passes both tests, lider.py looks at all_links[0] only
ScanLinks(all_links, s) ==
    IF s = "lider"
    THEN IF all_links # <<>> /\ all_links[1] # <<>> THEN 1 ELSE 0
    ELSE FirstIndex({i \in 1..Len(all_links) :
                        LinkFilter(all_links[i], s) /\ NotAffiliate(all_links[i])})

\* the hrefs a results page can hold
L_REL == <<"/","l","e","c","h","e","-","1","2","3","4","5","6","/","p">>
L_JUMBO == <<"h","t","t","p","s",":","/","/","w","w","w",".","j","u","m","b","o",".","c","l","/","p","a","n","/","p">>
L_SISA == <<"h","t","t","p","s",":","/","/","w","w","w",".","s","a","n","t","a","i","s","a","b","e","l",".","c","l","/","p","a","n","/","p">>
L_JUMBO_UTM == <<"h","t","t","p","s",":","/","/","w","w","w",".","j","u","m","b","o",".","c","l","/","p","?","u","t","m","_","x","=","1">>
L_PUNTOS == <<"/","p","u","n","t","o","s","c","e","n","c","o","s","u","d","/","p">>
L_FOREIGN == <<"h","t","t","p","s",":","/","/","a","d","s",".","e","x","/","p","?","t","o","=","j","u","m","b","o",".","c","l","+","s","a","n","t","a","i","s","a","b","e","l",".","c","l">>
L_IP_REL == <<"/","i","p","/","l","e","c","h","e","/","1","2","3">>
L_IP_UTM == <<"h","t","t","p","s",":","/","/","a","d","s",".","e","x","/","i","p","/","1","?","u","t","m","_","z","=","1">>
L_IP_EAN == <<"h","t","t","p","s",":","/","/","s","u","p","e","r",".","l","i","d","e","r",".","c","l","/","i","p","/","p","a","n","/","0","0","0","0","0","0","1","2","3","4","5","6","7","8">>
Hrefs == {L_REL, L_JUMBO, L_SISA, L_JUMBO_UTM, L_PUNTOS, L_FOREIGN, L_IP_REL, L_IP_UTM, L_IP_EAN}
\* the lists query_selector_all('a[href*="/p"]') or ('a[href*="/ip/"]') can
\* return: the hrefs that hold the substring of the selector
LinkLists(s) ==
    UNION {[1..n -> {h \in Hrefs : Contains(LinkMarker(s), h)}] : n \in 0..MaxLinks}

\* a product page: names[1..3] the inner text of the first element matching
\* h1.product-name, h1 and [class*="product-name"] (None: no such element),
\* price_text the text of div.sticky-product-prices div.text-3xl, sku_text
\* that of span.product-code, content the markup of page.content()
PageOf(names, price_text, sku_text, content) ==
    [names |-> names, price_text |-> price_text, sku_text |-> sku_text, content |-> content]
T_LECHE == <<"L","e","c","h","e"," ","1","L">>
T_BLANK == <<" ","\n">>
T_PAN == <<" ","P","a","n"," ">>
Pages == {
    PageOf(<<Some(T_LECHE), Some(T_LECHE), Some(T_LECHE)>>, Some(<<" ","$","1",".","9","9","0"," ">>),
           Some(<<"C","ó","d","i","g","o",":"," ","1","5","8","9","2","7","7">>), <<"E","l"," ","p","r","e","c","i","o"," ","a","c","t","u","a","l"," ","e","s"," ","$","1",".","9","9","0"," ","I","t","e","m",":"," ","2","5","4","2","9","5">>),
    PageOf(<<None, Some(T_BLANK), None>>, Some(<<"$","9","9","0"," ","c","/","u">>),
           None, <<"E","l"," ","p","r","e","c","i","o"," ","a","c","t","u","a","l"," ","e","s","\n","\t","$","9","9","0">>),
    PageOf(<<None, None, None>>, Some(<<"A","n","t","e","s"," ","$","2",",","5"," ","a","h","o","r","a"," ","$","2">>),
           Some(<<"C","ó","d","i","g","o">>), <<"O","f","e","r","t","a"," ","$","1",".","2","9","0"," ","E","l"," ","p","r","e","c","i","o"," ","a","c","t","u","a","l"," ","e","s"," ","$","1",".","1","9","0"," ","I","t","e","m"," ","7">>),
    PageOf(<<None, Some(T_BLANK), Some(T_PAN)>>, Some(<<"A","g","o","t","a","d","o"," ","$">>),
           Some(<<>>), <<"E","l"," ","p","r","e","c","i","o"," ","a","c","t","u","a","l"," ","e","s"," ","$"," ","I","t","e","m"," ",":"," ","4","2">>),
    PageOf(<<Some(T_PAN), Some(T_PAN), Some(T_PAN)>>, None,
           None, <<"<","p",">","$","9","9","0","<","/","p",">">>) }
NoPage == PageOf(<<None, None, None>>, None, None, <<>>)

\* element.inner_text().strip(), None when there is no element
StrippedText(t) == IF t # None THEN Some(Strip(t[1])) ELSE None

\* jumbo.py 95-102: product_name after the first n selectors were tried and
\* none of them raised: the first non-empty stripped text, else the (empty)
\* text of the last element found, else None
NameAfter(names, n) ==
    LET hit == {i \in 1..n : Truthy(StrippedText(names[i]))}
        seen == {i \in 1..n : names[i] # None}
    IN  IF hit # {} THEN StrippedText(names[FirstIndex(hit)])
        ELSE IF seen # {} THEN StrippedText(names[LastIndex(seen)])
        ELSE None
\* jumbo.py 88-102, lider.py 62-65 (h1), santaisabel.py 62-65 (h1.product-name, h1: the first h1)
SiteName(s, page) ==
    IF s = "jumbo" THEN NameAfter(page.names, 3) ELSE StrippedText(page.names[2])
\* product_name when the extraction raises at selector k (jumbo.py: the
\* selectors before k were tried and the loop did not break) or at the only
\* query (the other two, k = 1)
SiteNameRaised(s, page, k) == IF s = "jumbo" THEN NameAfter(page.names, k - 1) ELSE None
\* the extraction can raise at selector k
CanRaiseAt(s, page, k) ==
    IF s = "jumbo"
    THEN k \in 1..3 /\ \A i \in 1..(k - 1) : ~Truthy(StrippedText(page.names[i]))
    ELSE k = 1

\* re.search(r'\$[\d\.,]+', s).group(0), None when there is no match
DollarSearch(s) ==
    LET starts == {i \in 1..Len(s) : s[i] = "$" /\ i + 1 <= Len(s) /\ s[i + 1] \in PRICE_CLASS}
    IN  IF starts = {} THEN None
        ELSE Some(SubSeq(s, FirstIndex(starts), RunEnd(s, FirstIndex(starts) + 1, PRICE_CLASS)))
\* re.search(r'El precio actual es\s*\$[\d\.,]+', content).group(0)
PRECIO_ACTUAL == <<"E","l"," ","p","r","e","c","i","o"," ","a","c","t","u","a","l"," ","e","s">>
PrecioActualAt(s, i) ==
    /\ MatchAt(PRECIO_ACTUAL, s, i)
    /\ LET d == RunEnd(s, i + Len(PRECIO_ACTUAL), WHITESPACE) + 1
       IN  d + 1 <= Len(s) /\ s[d] = "$" /\ s[d + 1] \in PRICE_CLASS
PrecioActualSearch(s) ==
    LET starts == {i \in 1..Len(s) : PrecioActualAt(s, i)}
    IN  IF starts = {} THEN None
        ELSE LET i == FirstIndex(starts)
                 d == RunEnd(s, i + Len(PRECIO_ACTUAL), WHITESPACE) + 1
             IN  Some(SubSeq(s, i, RunEnd(s, d + 1, PRICE_CLASS)))
\* jumbo.py 110-121, santaisabel.py 72-77, lider.py 79-87
SitePrice(s, page) ==
    IF s = "lider"
    THEN IF PrecioActualSearch(page.content) # None
         THEN DollarSearch(PrecioActualSearch(page.content)[1])
         ELSE None
    ELSE IF page.price_text # None THEN DollarSearch(Strip(page.price_text[1])) ELSE None

\* re.search(r'\d+', s).group(0)
DigitSearch(s) ==
    LET starts == {i \in 1..Len(s) : s[i] \in DIGITS}
    IN  IF starts = {} THEN None
        ELSE Some(SubSeq(s, FirstIndex(starts), RunEnd(s, FirstIndex(starts), DIGITS)))
\* jumbo.py 145-153: the first run of six or more digits of the first part of the address that has one
LongDigitSearch(url) ==
    LET starts == {i \in 1..Len(url) :
                      /\ url[i] \in DIGITS
                      /\ (i = 1 \/ url[i - 1] \notin DIGITS)
                      /\ RunEnd(url, i, DIGITS) - i + 1 >= 6}
    IN  IF starts = {} THEN None
        ELSE Some(SubSeq(url, FirstIndex(starts), RunEnd(url, FirstIndex(starts), DIGITS)))
\* re.search(r'Item\s*:\s*(\d+)', content).group(1)
ITEM == <<"I","t","e","m">>
ItemDigitsAt(s, i) ==
    LET c == RunEnd(s, i + Len(ITEM), WHITESPACE) + 1
    IN  IF MatchAt(ITEM, s, i) /\ c <= Len(s) /\ s[c] = ":"
        THEN RunEnd(s, c + 1, WHITESPACE) + 1
        ELSE Len(s) + 1
ItemSearch(s) ==
    LET starts == {i \in 1..Len(s) : ItemDigitsAt(s, i) <= Len(s) /\ s[ItemDigitsAt(s, i)] \in DIGITS}
    IN  IF starts = {} THEN None
        ELSE Some(SubSeq(s, ItemDigitsAt(s, FirstIndex(starts)),
                         RunEnd(s, ItemDigitsAt(s, FirstIndex(starts)), DIGITS)))
\* re.search(r'/(\d{13,14})(?:\?|$)', current_url).group(1)
EanSearch(url) ==
    LET starts == {i \in 1..Len(url) :
                      /\ url[i] = "/"
                      /\ RunEnd(url, i + 1, DIGITS) - i \in {13, 14}
                      /\ \/ RunEnd(url, i + 1, DIGITS) = Len(url)
                         \/ url[RunEnd(url, i + 1, DIGITS) + 1] = "?"}
    IN  IF starts = {} THEN None
        ELSE Some(SubSeq(url, FirstIndex(starts) + 1, RunEnd(url, FirstIndex(starts) + 1, DIGITS)))
\* jumbo.py 130-153, lider.py 95-106, santaisabel.py 84-89
SiteSku(s, page, current_url) ==
    LET span == IF page.sku_text # None THEN DigitSearch(page.sku_text[1]) ELSE None
    IN  CASE s = "jumbo" -> IF Truthy(span) THEN span ELSE LongDigitSearch(current_url)
          [] s = "lider" -> IF ItemSearch(page.content) # None
                            THEN ItemSearch(page.content)
                            ELSE EanSearch(current_url)
          [] OTHER -> span

\* v or "placeholder"
OrElse(v, placeholder) == IF Truthy(v) THEN v[1] ELSE placeholder

\* jumbo.py 161-168, lider.py 113-120, santaisabel.py 96-103
ProductRecord(s, product_name, product_price, product_sku, current_url) ==
    [retailer |-> RetailerLabel(s),
     nombre |-> OrElse(product_name, Lit("No encontrado")),
     precio |-> OrElse(product_price, Lit("No disponible")),
     sku |-> OrElse(product_sku, Lit("No disponible")),
     url |-> current_url,
     encontrado |-> (product_name # None /\ product_price # None)]
\* jumbo.py 71-79
NotFoundRecord(search_url, msg) ==
    [retailer |-> Lit("Jumbo"), nombre |-> Lit("Producto no encontrado en búsqueda"),
     precio |-> Lit("N/A"), sku |-> Lit("N/A"), url |-> search_url,
     encontrado |-> FALSE, error |-> msg]
\* jumbo.py 172-180, lider.py 124-132, santaisabel.py 107-115
ErrorRecord(s, msg) ==
    [retailer |-> RetailerLabel(s), nombre |-> Lit("Error"), precio |-> Lit("Error"),
     sku |-> Lit("Error"), url |-> <<>>, error |-> msg, encontrado |-> FALSE]

\* str(e) of the exceptions of jumbo.py 63 and of lider.py 49, santaisabel.py 49
MSG_NO_VALID == Lit("No se encontró ningún producto válido")
MSG_NOT_FOUND == Lit("Producto no encontrado")
NotFoundMessage(s) == IF s = "jumbo" THEN MSG_NO_VALID ELSE MSG_NOT_FOUND

\* the locals of a single-site scraper before it starts
SiteIdle ==
    [scraper |-> "none", all_links |-> <<>>, followed |-> 0, product_url |-> None,
     page |-> NoPage, current_url |-> <<>>, product_name |-> None,
     product_price |-> None, product_sku |-> None]

\* ------------------------------------------------------------- the state
VARIABLES
    pc,               \* the stage the invocation is at
    launched,         \* p.chromium.launch has returned a browser
    close_calls,      \* number of calls of browser.close
    gotos,            \* the targets of page.goto, in call order
    markup,           \* the markup of the page the session shows
    page_url,         \* page.url
    shopping_button,  \* index of the selector that resolved, 0 for None
    content,          \* the markup read at line 233, None before
    product_items,    \* the list of line 255
    idx,              \* number of entries the loop of line 268 has gone through
    results,          \* the list of line 249
    accepted,         \* positions in product_items of the entries in results
    item_faults,      \* number of entries whose extraction raised
    exc,              \* str(e) of the exception on its way to line 350
    outcome,          \* "running", "returned" or "raised"
    result,           \* the returned list
    challenge_seen,   \* a page with a bot challenge was shown after the home page
    log,              \* the operations performed, in order
    site              \* the locals of a single-site scraper (jumbo.py, lider.py, santaisabel.py)

vars == <<pc, launched, close_calls, gotos, markup, page_url, shopping_button, content,
          product_items, idx, results, accepted, item_faults, exc, outcome, result,
          challenge_seen, log, site>>

Init ==
    /\ pc = "launch"
    /\ launched = FALSE
    /\ close_calls = 0
    /\ gotos = <<>>
    /\ markup = <<>>
    /\ page_url = URL_BLANK
    /\ shopping_button = 0
    /\ content = None
    /\ product_items = <<>>
    /\ idx = 0
    /\ results = <<>>
    /\ accepted = <<>>
    /\ item_faults = 0
    /\ exc = <<>>
    /\ outcome = "running"
    /\ result = <<>>
    /\ challenge_seen = FALSE
    /\ log = <<>>
    /\ site = SiteIdle

\* an exception leaves the function: nothing catches it
Propagate(events) ==
    /\ pc' = "done"
    /\ outcome' = "raised"
    /\ log' = log \o events \o <<"raise">>

\* an exception raised inside the try of line 78 reaches line 350
ToHandler(msg, events) ==
    /\ pc' = "handler"
    /\ exc' = msg
    /\ log' = log \o events

\* a return statement
Return(value, events) ==
    /\ pc' = "done"
    /\ outcome' = "returned"
    /\ result' = value
    /\ log' = log \o events \o <<"return">>

\* line 34: p.chromium.launch
Launch ==
    /\ pc = "launch"
    /\ \/ /\ launched' = TRUE
          /\ pc' = "bootstrap"
          /\ log' = Append(log, "launch")
          /\ UNCHANGED <<outcome>>
       \/ /\ Propagate(<<"fail:launch">>)
          /\ UNCHANGED <<launched>>
    /\ UNCHANGED <<site, close_calls, gotos, markup, page_url, shopping_button, content, product_items,
                   idx, results, accepted, item_faults, exc, result, challenge_seen>>

\* lines 53-76, outside the try: new_context, new_page, goto about:blank, apply_stealth_sync
BootSteps == <<"new_context", "new_page", "goto", "stealth">>
Bootstrap ==
    /\ pc = "bootstrap"
    /\ \/ /\ pc' = "home"
          /\ gotos' = Append(gotos, URL_BLANK)
          /\ log' = log \o BootSteps
          /\ UNCHANGED <<outcome>>
       \/ \E k \in 1..Len(BootSteps) :
             /\ gotos' = IF k >= 3 THEN Append(gotos, URL_BLANK) ELSE gotos
             /\ Propagate(SubSeq(BootSteps, 1, k - 1) \o <<"fail:bootstrap">>)
    /\ UNCHANGED <<site, launched, close_calls, markup, page_url, shopping_button, content, product_items,
                   idx, results, accepted, item_faults, exc, result, challenge_seen>>

\* lines 81-99: google.cl, pointer wander, scroll
Home ==
    /\ pc = "home"
    /\ gotos' = Append(gotos, URL_HOME)
    /\ \/ /\ pc' = "search"
          /\ page_url' = URL_HOME
          /\ log' = Append(log, "home")
          /\ UNCHANGED <<exc>>
       \/ /\ ToHandler(MSG_ENGINE, <<"fail:home">>)
          /\ UNCHANGED <<page_url>>
    /\ UNCHANGED <<site, launched, close_calls, markup, shopping_button, content, product_items,
                   idx, results, accepted, item_faults, outcome, result, challenge_seen>>

\* lines 103-124: search box, typing, Enter, scroll; the engine shows the page that answers
Search ==
    /\ pc = "search"
    /\ \/ \E m \in Markups :
             /\ pc' = "tab"
             /\ markup' = m
             /\ page_url' = UrlOf(m, URL_SEARCH)
             /\ challenge_seen' = (m \in ChallengePages)
             /\ log' = Append(log, "search")
             /\ UNCHANGED <<exc>>
       \/ /\ ToHandler(MSG_ENGINE, <<"fail:search">>)
          /\ UNCHANGED <<markup, page_url, challenge_seen>>
    /\ UNCHANGED <<site, launched, close_calls, gotos, shopping_button, content, product_items,
                   idx, results, accepted, item_faults, outcome, result>>

\* lines 148-149 and 170-173: no selector resolved; the exception of line 149
\* is wrapped at line 173 and ends the run, no address is built and visited
TabExhaustedFallback ==
    /\ pc' = "product"
    /\ gotos' = Append(gotos, URL_SHOPPING)
    /\ markup' = MK_PLAIN
    /\ page_url' = URL_SHOPPING
    /\ log' = Append(log, "tab_exhausted")
    /\ UNCHANGED <<exc>>
TabExhausted ==
    /\ ToHandler(ShoppingError(MSG_NO_BUTTON), <<"tab_exhausted", "fail:tab">>)
    /\ UNCHANGED <<gotos, markup, page_url>>

\* lines 128-149: the selector loop; present is the set of selectors the page resolves
TabResolve ==
    /\ pc = "tab"
    /\ \E present \in SUBSET (1..NumSelectors) :
          /\ shopping_button' = FirstResolved(present)
          /\ IF NoButton(FirstResolved(present))
             THEN TabExhausted
             ELSE /\ pc' = "tab_click"
                  /\ log' = Append(log, "tab_resolved")
                  /\ UNCHANGED <<exc, gotos, markup, page_url>>
    /\ UNCHANGED <<site, launched, close_calls, content, product_items,
                   idx, results, accepted, item_faults, outcome, result, challenge_seen>>

\* lines 162-173: the click, the wait and the scroll; lines 152-159 sit under the raise of line 149 and never run
TabClick ==
    /\ pc = "tab_click"
    /\ \/ \E m \in Markups :
             /\ pc' = "product"
             /\ markup' = m
             /\ page_url' = UrlOf(m, URL_SHOPPING)
             /\ challenge_seen' = (challenge_seen \/ m \in ChallengePages)
             /\ log' = Append(log, "tab_click")
             /\ UNCHANGED <<exc>>
       \/ /\ ToHandler(ShoppingError(MSG_ENGINE), <<"tab_click", "fail:tab">>)
          /\ UNCHANGED <<markup, page_url, challenge_seen>>
    /\ UNCHANGED <<site, launched, close_calls, gotos, shopping_button, content, product_items,
                   idx, results, accepted, item_faults, outcome, result>>

\* lines 177-226: the first product; whatever is raised here is caught at line 225.
\* not_found: wait_for_selector timed out; clicked: the whole sequence ran;
\* failed: the pointer move, the click or a scroll raised
ProductOutcomes == {"not_found", "clicked", "failed"}
\* lines 225-229: the except clause prints and the run goes on with the screenshot
AfterProductFatal(o) == IF o = "clicked" THEN "screenshot" ELSE "handler"
AfterProduct(o) == "screenshot"
ProductStep ==
    /\ pc = "product"
    /\ \E o \in ProductOutcomes :
          /\ log' = Append(log, "product:" \o o)
          /\ pc' = AfterProduct(o)
          /\ IF o = "not_found"
             THEN UNCHANGED <<markup, page_url, challenge_seen>>
             ELSE \E m \in Markups :
                     /\ markup' = m
                     /\ page_url' = UrlOf(m, URL_SHOPPING)
                     /\ challenge_seen' = (challenge_seen \/ m \in ChallengePages)
    /\ UNCHANGED <<site, launched, close_calls, gotos, shopping_button, content, product_items,
                   idx, results, accepted, item_faults, exc, outcome, result>>

\* line 229: page.screenshot
Screenshot ==
    /\ pc = "screenshot"
    /\ \/ /\ pc' = "check"
          /\ log' = Append(log, "screenshot")
          /\ UNCHANGED <<exc>>
       \/ ToHandler(MSG_OSERROR, <<"fail:screenshot">>)
    /\ UNCHANGED <<site, launched, close_calls, gotos, markup, page_url, shopping_button, content,
                   product_items, idx, results, accepted, item_faults, outcome, result,
                   challenge_seen>>

\* lines 233-234: the markup is read and searched for the markers
Check ==
    /\ pc = "check"
    /\ \/ /\ content' = Some(markup)
          /\ pc' = AfterCheck(markup)
          /\ log' = Append(log, "check")
          /\ UNCHANGED <<exc>>
       \/ /\ ToHandler(MSG_ENGINE, <<"fail:check">>)
          /\ UNCHANGED <<content>>
    /\ UNCHANGED <<site, launched, close_calls, gotos, markup, page_url, shopping_button,
                   product_items, idx, results, accepted, item_faults, outcome, result,
                   challenge_seen>>

\* lines 236-237: the markup is written to /tmp/google_shopping_captcha.html
CaptchaDump ==
    /\ pc = "captcha_dump"
    /\ \/ /\ pc' = "captcha_close"
          /\ log' = Append(log, "dump_captcha")
          /\ UNCHANGED <<exc>>
       \/ ToHandler(MSG_OSERROR, <<"fail:dump_captcha">>)
    /\ UNCHANGED <<site, launched, close_calls, gotos, markup, page_url, shopping_button, content,
                   product_items, idx, results, accepted, item_faults, outcome, result,
                   challenge_seen>>

\* lines 238-247: browser.close, then the sentinel with page.url
CaptchaCloseGoesOn ==
    /\ pc = "captcha_close"
    /\ close_calls' = close_calls + 1
    /\ pc' = "query"
    /\ log' = Append(log, "close")
    /\ UNCHANGED <<site, launched, gotos, markup, page_url, shopping_button, content, product_items,
                   idx, results, accepted, item_faults, exc, outcome, result, challenge_seen>>
CaptchaClose ==
    /\ pc = "captcha_close"
    /\ close_calls' = close_calls + 1
    /\ \/ /\ Return(<<CaptchaSentinel(page_url)>>, <<"close", "read_url">>)
          /\ UNCHANGED <<exc>>
       \/ /\ ToHandler(MSG_ENGINE, <<"fail:close">>)
          /\ UNCHANGED <<outcome, result>>
    /\ UNCHANGED <<site, launched, gotos, markup, page_url, shopping_button, content,
                   product_items, idx, results, accepted, item_faults, challenge_seen>>

\* line 255: page.query_selector_all
Query ==
    /\ pc = "query"
    /\ \/ \E l \in PanelLists :
             /\ product_items' = l
             /\ pc' = IF Len(l) = 0 THEN "html_dump" ELSE "loop"
             /\ log' = Append(log, "query_all")
             /\ UNCHANGED <<exc>>
       \/ /\ ToHandler(MSG_ENGINE, <<"fail:query_all">>)
          /\ UNCHANGED <<product_items>>
    /\ UNCHANGED <<site, launched, close_calls, gotos, markup, page_url, shopping_button, content,
                   idx, results, accepted, item_faults, outcome, result, challenge_seen>>

\* lines 259-266: no item matched; the markup is read and written to /tmp/google_shopping.html
HtmlDump ==
    /\ pc = "html_dump"
    /\ \/ /\ pc' = "loop"
          /\ log' = Append(log, "dump_html")
          /\ UNCHANGED <<exc>>
       \/ ToHandler(MSG_OSERROR, <<"fail:dump_html">>)
    /\ UNCHANGED <<site, launched, close_calls, gotos, markup, page_url, shopping_button, content,
                   product_items, idx, results, accepted, item_faults, outcome, result,
                   challenge_seen>>

\* lines 331-333: an exception raised while an entry is read is caught, printed
\* and followed by continue
ItemRaisedFatal == ToHandler(MSG_ENGINE, <<"extract_raised">>)
ItemRaised ==
    /\ log' = Append(log, "extract_raised")
    /\ UNCHANGED <<pc, exc>>

\* lines 268-333: one entry of product_items[:20]; an exception raised while
\* the entry is read is caught at line 331 and the entry is skipped
LoopItem ==
    /\ pc = "loop"
    /\ idx < Len(Capped(product_items))
    /\ idx' = idx + 1
    /\ \/ /\ results' = ExtractItem(results, Capped(product_items)[idx + 1])
          /\ accepted' = IF Accepted(Capped(product_items)[idx + 1])
                         THEN Append(accepted, idx + 1) ELSE accepted
          /\ log' = Append(log, "extract")
          /\ UNCHANGED <<pc, exc, item_faults>>
       \/ /\ item_faults < MaxItemFaults
          /\ item_faults' = item_faults + 1
          /\ ItemRaised
          /\ UNCHANGED <<results, accepted>>
    /\ UNCHANGED <<site, launched, close_calls, gotos, markup, page_url, shopping_button, content,
                   product_items, outcome, result, challenge_seen>>

\* lines 335-348: after the loop, browser.close, then the list or the no-results sentinel
Teardown ==
    /\ pc = "loop"
    /\ idx >= Len(Capped(product_items))
    /\ close_calls' = close_calls + 1
    /\ \/ /\ Return(NormalResult(results, page_url),
                    IF results = <<>> THEN <<"close", "read_url">> ELSE <<"close">>)
          /\ UNCHANGED <<exc>>
       \/ /\ ToHandler(MSG_ENGINE, <<"fail:close">>)
          /\ UNCHANGED <<outcome, result>>
    /\ UNCHANGED <<site, launched, gotos, markup, page_url, shopping_button, content,
                   product_items, idx, results, accepted, item_faults, challenge_seen>>

\* lines 350-363: browser.close, then the error sentinel; an exception of this
\* close is raised inside the except clause and leaves the function
Handler ==
    /\ pc = "handler"
    /\ close_calls' = close_calls + 1
    /\ \/ Return(<<ErrorSentinel(exc)>>, <<"close">>)
       \/ /\ Propagate(<<"fail:close">>)
          /\ UNCHANGED <<result>>
    /\ UNCHANGED <<site, launched, gotos, markup, page_url, shopping_button, content,
                   product_items, idx, results, accepted, item_faults, exc, challenge_seen>>

Next ==
    \/ Launch
    \/ Bootstrap
    \/ Home
    \/ Search
    \/ TabResolve
    \/ TabClick
    \/ ProductStep
    \/ Screenshot
    \/ Check
    \/ CaptchaDump
    \/ CaptchaClose
    \/ Query
    \/ HtmlDump
    \/ LoopItem
    \/ Teardown
    \/ Handler

Spec == Init /\ [][Next]_vars

\* ------------------------------------------- single-site scrapers: actions
\* the variables of scrape_google_shopping, which a single-site scraper does not have
panel == <<markup, page_url, shopping_button, content, product_items, idx, results,
           accepted, item_faults, challenge_seen>>

SInit ==
    /\ pc = "s_launch"
    /\ launched = FALSE
    /\ close_calls = 0
    /\ gotos = <<>>
    /\ markup = <<>>
    /\ page_url = URL_BLANK
    /\ shopping_button = 0
    /\ content = None
    /\ product_items = <<>>
    /\ idx = 0
    /\ results = <<>>
    /\ accepted = <<>>
    /\ item_faults = 0
    /\ exc = <<>>
    /\ outcome = "running"
    /\ result = <<>>
    /\ challenge_seen = FALSE
    /\ log = <<>>
    /\ \E s \in Scrapers : site = [SiteIdle EXCEPT !.scraper = s]

\* an exception raised inside the try of line 27 reaches the except clause at
\* the end of the function (jumbo.py 170, lider.py 122, santaisabel.py 105)
SToHandler(msg, events) ==
    /\ pc' = "s_handler"
    /\ exc' = msg
    /\ log' = log \o events

\* an exception raised at jumbo.py 40-67 is caught at line 68; in lider.py and
\* santaisabel.py the same statements sit directly in the try of line 27
SearchFailed(msg, events) ==
    IF site.scraper = "jumbo"
    THEN /\ pc' = "s_inner"
         /\ exc' = msg
         /\ log' = log \o events
    ELSE SToHandler(msg, events)

\* lines 24-25 of each scraper, outside the try: launch and new_page
SLaunch ==
    /\ pc = "s_launch"
    /\ \/ /\ launched' = TRUE
          /\ pc' = "s_search"
          /\ log' = log \o <<"launch", "new_page">>
          /\ UNCHANGED <<outcome>>
       \/ /\ Propagate(<<"fail:launch">>)
          /\ UNCHANGED <<launched>>
       \/ /\ launched' = TRUE
          /\ Propagate(<<"launch", "fail:new_page">>)
    /\ UNCHANGED <<close_calls, gotos, exc, result, site>>
    /\ UNCHANGED panel

\* line 31 of each scraper: page.goto(search_url)
SSearch ==
    /\ pc = "s_search"
    /\ gotos' = Append(gotos, SearchUrl(site.scraper))
    /\ \/ /\ pc' = "s_links"
          /\ log' = Append(log, "goto_search")
          /\ UNCHANGED <<exc>>
       \/ SToHandler(MSG_ENGINE, <<"fail:goto_search">>)
    /\ UNCHANGED <<launched, close_calls, outcome, result, site>>
    /\ UNCHANGED panel

\* jumbo.py 62-63, lider.py 48-49, santaisabel.py 48-49: product_url is None, the scraper raises
NoProductSilent ==
    /\ pc' = "s_close"
    /\ log' = Append(log, "query_links")
    /\ UNCHANGED <<exc>>
NoProduct == SearchFailed(NotFoundMessage(site.scraper), <<"query_links", "fail:no_product">>)

\* jumbo.py 43-63, lider.py 36-49, santaisabel.py 35-49: the anchors are
\* queried and scanned for the product link
SLinks ==
    /\ pc = "s_links"
    /\ \/ \E l \in LinkLists(site.scraper) :
             LET i == ScanLinks(l, site.scraper)
             IN  /\ site' = [site EXCEPT !.all_links = l, !.followed = i,
                                         !.product_url = IF i = 0 THEN None
                                                         ELSE Some(Absolute(l[i], site.scraper))]
                 /\ IF i = 0
                    THEN NoProduct
                    ELSE /\ pc' = "s_goto"
                         /\ log' = Append(log, "query_links")
                         /\ UNCHANGED <<exc>>
       \/ /\ SearchFailed(MSG_ENGINE, <<"fail:query_links">>)
          /\ UNCHANGED <<site>>
    /\ UNCHANGED <<launched, close_calls, gotos, outcome, result>>
    /\ UNCHANGED panel

\* jumbo.py 66 and 85, lider.py 52-55, santaisabel.py 52-55: page.goto(product_url),
\* then current_url = page.url
SGoto ==
    /\ pc = "s_goto"
    /\ gotos' = Append(gotos, site.product_url[1])
    /\ \/ \E pg \in Pages :
             /\ site' = [site EXCEPT !.page = pg, !.current_url = site.product_url[1]]
             /\ pc' = "s_name"
             /\ log' = Append(log, "goto_product")
             /\ UNCHANGED <<exc>>
       \/ /\ SearchFailed(MSG_ENGINE, <<"fail:goto_product">>)
          /\ UNCHANGED <<site>>
    /\ UNCHANGED <<launched, close_calls, outcome, result>>
    /\ UNCHANGED panel

\* jumbo.py 88-104, lider.py 61-68, santaisabel.py 61-68: the name; an exception is caught and printed
SName ==
    /\ pc = "s_name"
    /\ \/ /\ site' = [site EXCEPT !.product_name = SiteName(site.scraper, site.page)]
          /\ log' = Append(log, "name")
       \/ \E k \in 1..3 :
             /\ CanRaiseAt(site.scraper, site.page, k)
             /\ site' = [site EXCEPT !.product_name = SiteNameRaised(site.scraper, site.page, k)]
             /\ log' = Append(log, "name_raised")
    /\ pc' = "s_price"
    /\ UNCHANGED <<launched, close_calls, gotos, exc, outcome, result>>
    /\ UNCHANGED panel

\* jumbo.py 107-125, lider.py 71-90, santaisabel.py 71-80: the price
SPrice ==
    /\ pc = "s_price"
    /\ \/ /\ site' = [site EXCEPT !.product_price = SitePrice(site.scraper, site.page)]
          /\ log' = Append(log, "price")
       \/ /\ log' = Append(log, "price_raised")
          /\ UNCHANGED <<site>>
    /\ pc' = "s_sku"
    /\ UNCHANGED <<launched, close_calls, gotos, exc, outcome, result>>
    /\ UNCHANGED panel

\* jumbo.py 128-156, lider.py 93-109, santaisabel.py 83-92: the SKU
SSku ==
    /\ pc = "s_sku"
    /\ \/ /\ site' = [site EXCEPT !.product_sku =
                                     SiteSku(site.scraper, site.page, site.current_url)]
          /\ log' = Append(log, "sku")
       \/ /\ log' = Append(log, "sku_raised")
          /\ UNCHANGED <<site>>
    /\ pc' = "s_close"
    /\ UNCHANGED <<launched, close_calls, gotos, exc, outcome, result>>
    /\ UNCHANGED panel

\* jumbo.py 159-168, lider.py 111-120, santaisabel.py 94-103: browser.close, then the record
STeardown ==
    /\ pc = "s_close"
    /\ close_calls' = close_calls + 1
    /\ \/ /\ Return(ProductRecord(site.scraper, site.product_name, site.product_price,
                                  site.product_sku, site.current_url), <<"close">>)
          /\ UNCHANGED <<exc>>
       \/ /\ SToHandler(MSG_ENGINE, <<"fail:close">>)
          /\ UNCHANGED <<outcome, result>>
    /\ UNCHANGED <<launched, gotos, site>>
    /\ UNCHANGED panel

\* jumbo.py 68-79: browser.close, then the record of a search without product;
\* an exception of this close goes to the except clause of line 170
SInnerHandler ==
    /\ pc = "s_inner"
    /\ close_calls' = close_calls + 1
    /\ \/ /\ Return(NotFoundRecord(SearchUrl(site.scraper), exc), <<"close">>)
          /\ UNCHANGED <<exc>>
       \/ /\ SToHandler(MSG_ENGINE, <<"fail:close">>)
          /\ UNCHANGED <<outcome, result>>
    /\ UNCHANGED <<launched, gotos, site>>
    /\ UNCHANGED panel

\* jumbo.py 170-180, lider.py 122-132, santaisabel.py 105-115: browser.close,
\* then the error record; an exception of this close leaves the function
SHandler ==
    /\ pc = "s_handler"
    /\ close_calls' = close_calls + 1
    /\ \/ Return(ErrorRecord(site.scraper, exc), <<"close">>)
       \/ /\ Propagate(<<"fail:close">>)
          /\ UNCHANGED <<result>>
    /\ UNCHANGED <<launched, gotos, exc, site>>
    /\ UNCHANGED panel

SNext ==
    \/ SLaunch
    \/ SSearch
    \/ SLinks
    \/ SGoto
    \/ SName
    \/ SPrice
    \/ SSku
    \/ STeardown
    \/ SInnerHandler
    \/ SHandler

SpecSite == SInit /\ [][SNext]_vars

\* ------------------------------------------------------------ properties
InLog(e) == \E i \in 1..Len(log) : log[i] = e
Count(e) == Cardinality({i \in 1..Len(log) : log[i] = e})
Done == pc = "done"
Returned == pc = "done" /\ outcome = "returned"
Raised == pc = "done" /\ outcome = "raised"
BootstrapCompleted == InLog("stealth")
ProductEvents == {"product:" \o o : o \in ProductOutcomes}
ExtractEvents == {"extract", "extract_raised"}

IsOffer(r) == r.encontrado /\ "error" \notin DOMAIN r
IsCaptchaSentinel(r) == r = CaptchaSentinel(r.url)
IsNoResultsSentinel(r) == r = NoResultsSentinel(r.url)
IsErrorSentinel(r) == "error" \in DOMAIN r /\ r = ErrorSentinel(r.error)

\* the text holds c a p t c h a at some position, each letter in either case
CAPTCHA_UPPER == <<"C","A","P","T","C","H","A">>
HasMarker(text) ==
    \E i \in 1..Len(text) :
        /\ i + 6 <= Len(text)
        /\ \A k \in 1..7 : text[i + k - 1] \in {CAPTCHA[k], CAPTCHA_UPPER[k]}
\* the check of line 234 ran and found a marker
Detected == content # None /\ HasMarker(content[1])

\* C1: in every invocation in which the browser was launched, browser.close
\* has been called exactly once when the invocation ends, on every exit path.
C1_CloseExactlyOnce == (Done /\ launched) => close_calls = 1

\* C2: a failure of the launch or of a bootstrap step (context, page,
\* about:blank, stealth) ends the run with the error sentinel as the returned
\* value, not with an exception.
C2_LaunchFailureSentinel ==
    (Done /\ (InLog("fail:launch") \/ InLog("fail:bootstrap")))
        => /\ outcome = "returned"
           /\ Len(result) = 1
           /\ IsErrorSentinel(result[1])

\* C3: once the bootstrap is through, the function never raises and never
\* returns an empty list: it returns offers that all have encontrado = true, or
\* one of the three sentinels, and the error sentinel with the message of the
\* exception when a stage failed.
C3_FourShapes ==
    (Done /\ BootstrapCompleted)
        => /\ outcome = "returned"
           /\ Len(result) >= 1
           /\ \/ \A k \in 1..Len(result) : IsOffer(result[k])
              \/ Len(result) = 1 /\ IsCaptchaSentinel(result[1])
              \/ Len(result) = 1 /\ IsNoResultsSentinel(result[1])
              \/ Len(result) = 1 /\ IsErrorSentinel(result[1])
           /\ exc # <<>> => result = <<ErrorSentinel(exc)>>

\* an inner text that is missing or has nothing but whitespace
Blank(text) == text = None \/ \A i \in 1..Len(text[1]) : text[1][i] \in WHITESPACE
\* the entry at position i of the list of line 255 lacks one of the three required fields
Lacking(i) ==
    \/ Blank(product_items[i].retailer)
    \/ Blank(product_items[i].name)
    \/ ProductPrice(product_items[i]) = None

\* C4: every offer collected or returned has a non-empty retailer, nombre and
\* precio, and it comes from a panel entry that has all three; an entry whose
\* retailer, title or price is missing or blank is never among the offers.
C4_FilterInvariant ==
    /\ Len(accepted) = Len(results)
    /\ \A k \in 1..Len(results) :
          /\ results[k].retailer # <<>> /\ results[k].nombre # <<>>
          /\ Len(results[k].precio) >= 2
          /\ results[k].retailer[1] \notin WHITESPACE
          /\ results[k].nombre[1] \notin WHITESPACE
          /\ ~Lacking(accepted[k])
    /\ Returned => \A k \in 1..Len(result) :
                      IsOffer(result[k]) => /\ result = results
                                            /\ result[k].retailer # <<>>
                                            /\ result[k].nombre # <<>>
                                            /\ result[k].precio # <<>>
C4_Witness ==
    /\ Returned /\ Len(result) >= 1 /\ IsOffer(result[1])
    /\ \E i \in 1..idx : Lacking(i)

\* C5: the loop goes through the first min(n, 20) of the n matched entries, in
\* document order, and neither the collected nor the returned list is longer than 20.
C5_CapInvariant ==
    /\ idx <= Min(Len(product_items), PanelCap)
    /\ Count("extract") + Count("extract_raised") = idx
    /\ Len(results) <= PanelCap
    /\ \A k \in 1..Len(accepted) :
          /\ accepted[k] \in 1..idx
          /\ k > 1 => accepted[k - 1] < accepted[k]
          /\ results[k].nombre = Strip(product_items[accepted[k]].name[1])
    /\ (InLog("close") /\ Count("query_all") = 1 /\ ~InLog("fail:dump_html"))
          => idx = Min(Len(product_items), PanelCap)
    /\ Returned => Len(result) <= PanelCap
C5_Witness ==
    /\ Returned /\ Len(product_items) > PanelCap /\ idx = PanelCap
    /\ Len(result) > 1 /\ IsOffer(result[1])

ProductFailed == InLog("product:not_found") \/ InLog("product:failed")
\* the stages after the first-product step that can send an exception to line 350
LaterFailures == {"fail:screenshot", "fail:check", "fail:dump_captcha", "fail:dump_html",
                  "fail:query_all", "fail:close"}

\* C11: when the first result entry is not found, or the pointer move, the
\* click or a scroll of the first-product step raises, the run goes on with
\* the screenshot, the check and (no challenge detected) the panel query;
\* that failure alone never gives the error sentinel: an error sentinel
\* returned after it comes from a later stage that raised.
C11_ProductFailureNonFatal ==
    /\ (log # <<>> /\ log[Len(log)] \in {"product:not_found", "product:failed"})
          => pc = "screenshot" /\ outcome = "running" /\ exc = <<>>
    /\ (Done /\ ProductFailed /\ exc = <<>>)
          => /\ outcome = "returned"
             /\ InLog("screenshot") /\ InLog("check")
             /\ Detected \/ InLog("query_all")
             /\ ~IsErrorSentinel(result[1])
    /\ (Returned /\ ProductFailed /\ IsErrorSentinel(result[1]))
          => \E i \in 1..Len(log) : log[i] \in LaterFailures
C11_Witness ==
    /\ Returned /\ InLog("product:failed") /\ InLog("query_all")
    /\ Len(result) >= 1 /\ IsOffer(result[1])

\* the href of the anchor of the panel entry from which offer k was built
HrefOf(k) == product_items[accepted[k]].href
\* the text after the url= that starts at position i, up to the next & or the end
ValueAt(href, i) ==
    LET stops == {j \in (i + 4)..(Len(href) + 1) : j = Len(href) + 1 \/ href[j] = "&"}
    IN  SubSeq(href, i + 4, (CHOOSE j \in stops : \A k \in stops : j <= k) - 1)
\* the positions at which href holds url=, and the first of a set of positions
ParamStarts(href) == {i \in 1..Len(href) : MatchAt(URL_EQ, href, i)}
First(S) == CHOOSE i \in S : \A j \in S : i <= j

\* C15 as claimed: the url of an offer is the percent-decoded value of the
\* url= parameter of the href when the href holds url=, the href unchanged
\* when it does not, and it is empty only when the entry has no anchor or
\* no href.
C15_EmptyOnlyWithoutHref ==
    \A k \in 1..Len(results) :
        /\ (HrefOf(k) # None /\ ParamStarts(HrefOf(k)[1]) # {})
              => results[k].url = unquote(ValueAt(HrefOf(k)[1], First(ParamStarts(HrefOf(k)[1]))))
        /\ (HrefOf(k) # None /\ ParamStarts(HrefOf(k)[1]) = {})
              => results[k].url = HrefOf(k)[1]
        /\ results[k].url = <<>> => (HrefOf(k) = None \/ HrefOf(k)[1] = <<>>)

\* C15 amended: the url of an offer is the percent-decoded text between the
\* first url= of the href that has a character other than & behind it and
\* the next & or the end; it is the href unchanged when the href does not
\* hold url=; and it is empty when the entry has no anchor, when the href is
\* empty, and when the href holds url= only with nothing or an & behind it.
C15_UrlUnwrapping ==
    \A k \in 1..Len(results) :
        LET valued == IF HrefOf(k) = None THEN {}
                      ELSE {i \in ParamStarts(HrefOf(k)[1]) :
                               i + 4 <= Len(HrefOf(k)[1]) /\ HrefOf(k)[1][i + 4] # "&"}
        IN  /\ (HrefOf(k) = None \/ HrefOf(k) = Some(<<>>)) => results[k].url = <<>>
            /\ (HrefOf(k) # None /\ ParamStarts(HrefOf(k)[1]) = {})
                  => results[k].url = HrefOf(k)[1]
            /\ (HrefOf(k) # None /\ ParamStarts(HrefOf(k)[1]) # {} /\ valued = {})
                  => results[k].url = <<>>
            /\ valued # {}
                  => results[k].url = unquote(ValueAt(HrefOf(k)[1], First(valued)))
            /\ HrefOf(k) = Some(H_WRAP) => results[k].url = <<"h","t","t","p","s",":","/","/","a",".","c","l","/","p">>
            /\ HrefOf(k) = Some(H_LATER) => results[k].url = <<"b",".","c","l","/","p">>
            /\ HrefOf(k) = Some(H_PLAIN) => results[k].url = H_PLAIN
C15_Witness ==
    /\ Returned /\ Len(result) >= 1 /\ IsOffer(result[1])
    /\ \E k \in 1..Len(results) : HrefOf(k) \in {Some(H_WRAP), Some(H_LATER), Some(H_EMPTYVAL)}

\* the extract events of the log: the i-th is that of the entry at position i
IsExtractEvent(e) == e \in ExtractEvents
ExtractLog == SelectSeq(log, IsExtractEvent)

\* C16: an exception raised while one panel entry is read skips that entry
\* and nothing else: the loop goes on with the next entry, the offers are
\* those of the entries that have the three fields and did not raise, in
\* order, and the exception does not reach the handler of line 350, so that
\* it never gives the error sentinel.
C16_ItemExceptionSkipsItem ==
    /\ Len(ExtractLog) = idx
    /\ \A i \in 1..idx :
          (\E k \in 1..Len(accepted) : accepted[k] = i)
              <=> (ExtractLog[i] = "extract" /\ ~Lacking(i))
    /\ \A k \in 1..Len(results) :
          results[k] = Offer(RetailerName(product_items[accepted[k]])[1],
                             ProductName(product_items[accepted[k]])[1],
                             ProductPrice(product_items[accepted[k]])[1],
                             ProductUrl(product_items[accepted[k]]))
    /\ (log # <<>> /\ log[Len(log)] = "extract_raised")
          => pc = "loop" /\ outcome = "running" /\ exc = <<>>
    /\ (Done /\ InLog("extract_raised") /\ exc = <<>>)
          => /\ outcome = "returned"
             /\ idx = Min(Len(product_items), PanelCap)
             /\ result = NormalResult(results, page_url)
             /\ ~IsErrorSentinel(result[1])
C16_Witness ==
    /\ Returned /\ Len(ExtractLog) = PanelCap /\ ExtractLog[2] = "extract_raised"
    /\ ~Lacking(1) /\ ~Lacking(2) /\ ~Lacking(7)
    /\ Len(accepted) >= 2 /\ accepted[1] = 1 /\ accepted[2] = 7 /\ result = results

\* C17: the selectors are tried in list order and the first that resolves is
\* the control that is clicked; whenever the control is clicked, the pointer
\* was moved over it between the resolution and the click.
C17_PointerMoveBeforeClick ==
    \A i \in 1..Len(log) :
        log[i] = "tab_click"
            => \E j \in 1..(i - 1) :
                  /\ log[j] = "tab_move"
                  /\ \E k \in 1..(j - 1) : log[k] = "tab_resolved"

\* C18: the returned list is the same whether a diagnostic file is written or
\* the write fails: the CAPTCHA sentinel when the write of the challenge
\* markup fails, the no-results sentinel when the write of the markup of a
\* page without panel entries fails, and no error sentinel on account of a
\* failed screenshot.
C18_ArtifactsDoNotMatter ==
    /\ (Returned /\ InLog("fail:dump_captcha")) => result = <<CaptchaSentinel(page_url)>>
    /\ (Returned /\ InLog("fail:dump_html")) => result = <<NoResultsSentinel(page_url)>>
    /\ (Returned /\ InLog("fail:screenshot") /\ HasMarker(markup))
          => result = <<CaptchaSentinel(page_url)>>
    /\ (Returned /\ InLog("fail:screenshot")) => ~IsErrorSentinel(result[1])

\* a call of browser.close, returned or raised
CloseEvents == {"close", "fail:close"}

\* C19 as claimed: after a call of browser.close the run does nothing with
\* the page or the browser any more, it only returns or raises.
C19_NoSessionUseAfterClose ==
    \A i \in 1..Len(log) : \A j \in (i + 1)..Len(log) :
        log[i] \in CloseEvents => log[j] \in {"return", "raise"}

\* C19 amended: after a call of browser.close there is no navigation, click,
\* screenshot, check, query or extraction; what still follows is the read of
\* page.url for the url of the CAPTCHA or no-results sentinel, which comes
\* right after the close, and the second browser.close of the except clause
\* when the first one raised; the offers returned were all read before.
C19_OnlyUrlReadAfterClose ==
    /\ \A i \in 1..Len(log) : \A j \in (i + 1)..Len(log) :
          log[i] \in CloseEvents
              => log[j] \in {"read_url", "close", "fail:close", "return", "raise"}
    /\ \A j \in 1..Len(log) :
          log[j] = "read_url" => (j > 1 /\ log[j - 1] = "close")
    /\ (Returned /\ (IsCaptchaSentinel(result[1]) \/ IsNoResultsSentinel(result[1])))
          => InLog("read_url") /\ result[1].url = page_url
    /\ (Returned /\ IsOffer(result[1])) => result = results /\ ~InLog("read_url")
C19_Witness ==
    /\ Returned /\ IsNoResultsSentinel(result[1])
    /\ Len(log) >= 3 /\ log[Len(log) - 2] = "close" /\ log[Len(log) - 1] = "read_url"

\* the events of a visit of the product page of a single-site scraper
ProductPageEvents == {"goto_product", "fail:goto_product", "name", "name_raised",
                      "price", "price_raised", "sku", "sku_raised"}
\* a text that is "$" followed by digits, dots and commas
IsDollarPrice(t) == Len(t) >= 2 /\ t[1] = "$" /\ \A i \in 2..Len(t) : t[i] \in PRICE_CLASS

\* C12: in the record a single-site scraper returns, encontrado is true
\* exactly when a name and a price were both resolved: with encontrado true
\* nombre is a non-empty name and not the placeholder "No encontrado", and
\* precio is "$" followed by digits, dots and commas; with encontrado false
\* a missing field carries its placeholder.
C12_FoundIffNameAndPrice ==
    (Returned /\ site.scraper \in Scrapers) =>
        /\ result.encontrado <=> (Truthy(site.product_name) /\ Truthy(site.product_price))
        /\ result.encontrado =>
              /\ result.nombre # <<>> /\ result.nombre # Lit("No encontrado")
              /\ IsDollarPrice(result.precio)
        /\ (~result.encontrado /\ "error" \notin DOMAIN result) =>
              \/ result.nombre = Lit("No encontrado")
              \/ result.precio = Lit("No disponible")

OwnHosts(s) ==
    CASE s = "jumbo" -> {<<"w","w","w",".","j","u","m","b","o",".","c","l">>, <<"j","u","m","b","o",".","c","l">>}
      [] s = "lider" -> {<<"s","u","p","e","r",".","l","i","d","e","r",".","c","l">>, <<"w","w","w",".","l","i","d","e","r",".","c","l">>, <<"l","i","d","e","r",".","c","l">>}
      [] OTHER -> {<<"w","w","w",".","s","a","n","t","a","i","s","a","b","e","l",".","c","l">>, <<"s","a","n","t","a","i","s","a","b","e","l",".","c","l">>}
\* url is an absolute address on one of the retailer's hosts
OnOwnDomain(url, s) ==
    \E scheme \in {<<"h","t","t","p","s",":","/","/">>, <<"h","t","t","p",":","/","/">>} : \E host \in OwnHosts(s) :
        url = scheme \o host \/ StartsWith(scheme \o host \o <<"/">>, url)
\* conditions (a) and (b) of the link rule
ValidLink(url, s) ==
    /\ Contains(LinkMarker(s), url)
    /\ OnOwnDomain(url, s) \/ StartsWith(<<"/">>, url)
    /\ ~Contains(PUNTOS, url) /\ ~Contains(UTM, url)

\* C14: the link a single-site scraper follows is the first anchor, in
\* document order, that is an absolute address on the retailer's own domain
\* or a root-relative address, holds the product-path marker and holds no
\* affiliate or tracking marker; no other link is ever followed.
C14_FirstValidLinkFollowed ==
    (site.scraper \in Scrapers /\ InLog("query_links")) =>
        /\ site.followed = FirstIndex({i \in 1..Len(site.all_links) :
                                          ValidLink(site.all_links[i], site.scraper)})
        /\ \A k \in 2..Len(gotos) :
              \E i \in 1..Len(site.all_links) :
                  /\ ValidLink(site.all_links[i], site.scraper)
                  /\ gotos[k] = Absolute(site.all_links[i], site.scraper)

====
